---- MODULE Spec2Model ----
(***************************************************************************)
(* A model of the ELF parsing engine of elf/src/lib.rs: the extraction     *)
(* primitive extract_from_slice, Image::try_from and Image::sh_str_table.  *)
(*                                                                         *)
(* A byte slice is modelled by the byte range it covers in the input       *)
(* buffer, [base, len]; a typed slice &[T] by [base, count, elem].  usize  *)
(* is an unsigned integer of UsizeBits bits.  Arithmetic that overflows    *)
(* panics in a build with overflow checks ("debug") and wraps in a build   *)
(* without them ("release"); the variable build says which build runs.     *)
(***************************************************************************)
EXTENDS Integers, Sequences, FiniteSets

VARIABLES
    build,            \* "debug": overflow checks on; "release": off
    pc,               \* the position of the running operation
    call,             \* the arguments of a direct extract_from_slice call
    ret,              \* what that call returned
    word,             \* the Word the Image is instantiated with
    bytes,            \* the input buffer, a sequence of byte values
    fields,           \* the numeric fields the file header's bytes decode to
    shdrs,            \* what the section header table's bytes decode to
    names,            \* the section names the producer of the binary wrote
    header,           \* try_from's local: the parsed file header
    sections,         \* try_from's local: the section header slice
    program_headers,  \* try_from's local: the program header slice
    image,            \* what try_from returned
    log,              \* the steps try_from has taken, in order
    strtab,           \* what sh_str_table returned
    resolved          \* the section names looked up so far

imageVars == <<word, bytes, fields, shdrs, names, header, sections,
               program_headers, image, log, strtab, resolved>>
vars == <<build, pc, call, ret, imageVars>>

----------------------------------------------------------------------------
(* Bounds of the model *)

UsizeBits == 6
MaxLen == 8
MaxOffset == 10
MaxSize == 4
MaxBufLen == 8
MaxTabOff == 8
MaxCount == 2
MaxSections == 3
MaxNameLen == 2

----------------------------------------------------------------------------
(* usize *)

UsizeMod == 2 ^ UsizeBits
Usize == 0 .. (UsizeMod - 1)

Builds == {"debug", "release"}

(* The record types T a slice can be reinterpreted as: size_of::<T>() is a *)
(* multiple of align_of::<T>(), which is a power of two.                   *)
Types == { [size |-> s, align |-> a] : s \in 1 .. MaxSize, a \in {1, 2, 4} }
RecordTypes == { T \in Types : T.size % T.align = 0 }

MisalignedOffset ==
    "extract_from_slice: Offset not aligned on type T sized boundary!"
BufferTooShort ==
    "extract_from_slice: Slice too short to contain n instances of T!"

None == [kind |-> "None"]
Err(msg) == [kind |-> "Err", msg |-> msg]
Panic(why) == [kind |-> "Panic", why |-> why]
OkSlice(base, n, T) == [kind |-> "Ok", base |-> base, count |-> n, elem |-> T]

(* Arithmetic on usize.  An operation overflows when its exact result is   *)
(* not a usize; a build with overflow checks then panics, a build without  *)
(* them continues with the result wrapped to UsizeBits bits.               *)
sub_overflows(a, b) == a < b
mul_overflows(a, b) == a * b >= UsizeMod
add_overflows(a, b) == a + b >= UsizeMod

wrapping_sub(a, b) == (a - b) % UsizeMod
wrapping_mul(a, b) == (a * b) % UsizeMod
wrapping_add(a, b) == (a + b) % UsizeMod

overflow_panics(bld) == bld = "debug"

----------------------------------------------------------------------------
(* Variants of extract_from_slice with one check changed *)

\* the bounds check made before the alignment check
extract_bounds_first(data, offset, n, T, bld) ==
    IF /\ overflow_panics(bld)
       /\ sub_overflows(data.len, offset) \/ mul_overflows(T.size, n)
    THEN Panic("arithmetic overflow")
    ELSE IF wrapping_sub(data.len, offset) < wrapping_mul(T.size, n)
    THEN Err(BufferTooShort)
    ELSE IF offset % T.align # 0
    THEN Err(MisalignedOffset)
    ELSE IF offset > data.len
    THEN Panic("slice index out of range")
    ELSE OkSlice(data.base + offset, n, T)

\* the bounds check written with <= instead of <
extract_bounds_strict(data, offset, n, T, bld) ==
    IF offset % T.align # 0
    THEN Err(MisalignedOffset)
    ELSE IF /\ overflow_panics(bld)
            /\ sub_overflows(data.len, offset) \/ mul_overflows(T.size, n)
    THEN Panic("arithmetic overflow")
    ELSE IF wrapping_sub(data.len, offset) <= wrapping_mul(T.size, n)
    THEN Err(BufferTooShort)
    ELSE IF offset > data.len
    THEN Panic("slice index out of range")
    ELSE OkSlice(data.base + offset, n, T)

\* the bounds check left out
extract_no_bounds(data, offset, n, T, bld) ==
    IF offset % T.align # 0
    THEN Err(MisalignedOffset)
    ELSE IF offset > data.len
    THEN Panic("slice index out of range")
    ELSE OkSlice(data.base + offset, n, T)

----------------------------------------------------------------------------
(* extract_from_slice::<T>(data, offset, n) *)

extract_from_slice(data, offset, n, T, bld) ==
    IF offset % T.align # 0
    THEN Err(MisalignedOffset)
    ELSE IF /\ overflow_panics(bld)
            /\ sub_overflows(data.len, offset) \/ mul_overflows(T.size, n)
    THEN Panic("arithmetic overflow")
    ELSE IF wrapping_sub(data.len, offset) < wrapping_mul(T.size, n)
    THEN Err(BufferTooShort)
    ELSE IF offset > data.len
    THEN Panic("slice index out of range")
    ELSE OkSlice(data.base + offset, n, T)

----------------------------------------------------------------------------
(* The primitive applied to every buffer length, offset, count and type *)

InitExtract ==
    /\ build \in Builds
    /\ pc = "call"
    /\ call \in [ T : RecordTypes, len : 0 .. MaxLen,
                  offset : 0 .. MaxOffset, n : Usize ]
    /\ ret = None
    /\ word = "u64"
    /\ bytes = <<>>
    /\ fields = None
    /\ shdrs = <<>>
    /\ names = <<>>
    /\ header = None
    /\ sections = None
    /\ program_headers = None
    /\ image = None
    /\ log = <<>>
    /\ strtab = None
    /\ resolved = <<>>

Extract ==
    /\ pc = "call"
    /\ ret' = extract_from_slice([base |-> 0, len |-> call.len],
                                 call.offset, call.n, call.T, build)
    /\ pc' = "ret"
    /\ UNCHANGED <<build, call, imageVars>>

NextExtract == Extract

SpecExtract == InitExtract /\ [][NextExtract]_vars

----------------------------------------------------------------------------
(* Properties of extract_from_slice, checked under SpecExtract *)

Aligned(offset, T) == offset % T.align = 0

(* C1: whenever extract_from_slice returns Ok, offset is a multiple of     *)
(* align_of(T), offset + size_of(T)*n <= data.len(), and the slice has n   *)
(* elements starting at data[offset].                                      *)
C1_OkIsAlignedAndInBounds ==
    (pc = "ret" /\ ret.kind = "Ok") =>
        /\ Aligned(call.offset, call.T)
        /\ call.offset + call.T.size * call.n <= call.len
        /\ ret = OkSlice(call.offset, call.n, call.T)

(* C5: for an aligned offset and an n with data.len() - offset <           *)
(* size_of(T)*n as integers (offsets past the end included), the result is *)
(* the "slice too short" error.                                            *)
C5_TooShortIsReported ==
    ( /\ pc = "ret"
      /\ Aligned(call.offset, call.T)
      /\ call.len - call.offset < call.T.size * call.n )
        => ret = Err(BufferTooShort)

(* C6: for an offset that is not a multiple of align_of(T) the result is   *)
(* the misalignment error, whatever the buffer length and n are, also when *)
(* the offset is out of bounds as well.                                    *)
C6_MisalignedIsReportedFirst ==
    (pc = "ret" /\ ~Aligned(call.offset, call.T))
        => ret = Err(MisalignedOffset)

C6_Witness ==
    /\ pc = "ret"
    /\ ~Aligned(call.offset, call.T)
    /\ call.offset > call.len
    /\ call.n > 0
    /\ ret = Err(MisalignedOffset)

(* C7: with n = 0 and an aligned offset <= data.len() the result is Ok and *)
(* the slice is empty.                                                     *)
C7_ZeroCountIsEmptySlice ==
    ( /\ pc = "ret"
      /\ call.n = 0
      /\ Aligned(call.offset, call.T)
      /\ call.offset <= call.len )
        => ret = OkSlice(call.offset, 0, call.T)

C7_Witness ==
    /\ pc = "ret"
    /\ call.n = 0
    /\ call.T.align > 1
    /\ call.offset = call.len
    /\ call.len > 0
    /\ ret.kind = "Ok"
    /\ ret.count = 0

----------------------------------------------------------------------------
(* The file header, reduced to its identification block and its geometry   *)
(* fields.  The identification block is the magic number followed by the   *)
(* class byte; the numeric fields are kept decoded in the variable fields. *)

Words == {"u32", "u64"}

ElfMagic == <<127, 69, 76, 70>>
ClassOf(w) == IF w = "u32" THEN 1 ELSE 2
Ident(class) == ElfMagic \o <<class>>

HeaderT(w) == [size |-> Len(ElfMagic) + 2, align |-> 2]
SectionT(w) == IF w = "u32" THEN [size |-> 2, align |-> 2]
                            ELSE [size |-> 4, align |-> 4]
ProgHeaderT(w) == IF w = "u32" THEN [size |-> 2, align |-> 2]
                               ELSE [size |-> 4, align |-> 4]

NotElf == "not an ELF file"
BadClass == "unsupported class"

(* <&H>::try_from(bytes): the header is the first size_of::<H>() bytes,    *)
(* obtained with extract_from_slice(bytes, 0, 1); its identification block *)
(* is validated before any numeric field is trusted.                       *)
header_try_from(b, f, w, bld) ==
    LET r == extract_from_slice([base |-> 0, len |-> Len(b)], 0, 1,
                                HeaderT(w), bld)
    IN  IF r.kind # "Ok" THEN r
        ELSE IF SubSeq(b, 1, Len(ElfMagic)) # ElfMagic THEN Err(NotElf)
        ELSE IF b[Len(ElfMagic) + 1] # ClassOf(w) THEN Err(BadClass)
        ELSE [kind |-> "Ok", f |-> f]

sh_count(h) == h.f.sh_count
ph_count(h) == h.f.ph_count
sh_str_idx(h) == h.f.sh_str_idx

(* start .. start + entry_size * count, in usize arithmetic *)
table_range(start, entsize, count, bld) ==
    IF /\ overflow_panics(bld)
       /\ \/ mul_overflows(entsize, count)
          \/ add_overflows(start, wrapping_mul(entsize, count))
    THEN Panic("arithmetic overflow")
    ELSE [kind |-> "Ok", start |-> start,
          end |-> wrapping_add(start, wrapping_mul(entsize, count))]

sh_range(h, bld) ==
    table_range(h.f.sh_offset, h.f.sh_entsize, h.f.sh_count, bld)
ph_range(h, bld) ==
    table_range(h.f.ph_offset, h.f.ph_entsize, h.f.ph_count, bld)

(* &bytes[range]: indexing a slice by a range panics when the range is     *)
(* reversed or ends past the slice.                                        *)
index_range(b, rng) ==
    IF rng.kind = "Panic" THEN rng
    ELSE IF rng.start > rng.end \/ rng.end > Len(b)
    THEN Panic("slice index out of range")
    ELSE [kind |-> "Ok", base |-> rng.start, len |-> rng.end - rng.start]

(* &bytes[start..] *)
index_from(b, start) ==
    IF start > Len(b)
    THEN Panic("slice index out of range")
    ELSE [kind |-> "Ok", base |-> start, len |-> Len(b) - start]

----------------------------------------------------------------------------
(* Image::try_from(bytes), one action per statement *)

\* an error that is not propagated
TryIgnoringErr(r, next) ==
    IF r.kind = "Panic" THEN "panicked" ELSE next

(* expr? : on Ok go on to the next statement, on Err return the error; a   *)
(* panic unwinds out of try_from.                                          *)
Try(r, next) ==
    IF r.kind = "Ok" THEN next
    ELSE IF r.kind = "Err" THEN "returned"
    ELSE "panicked"

Returned(r, old) == IF r.kind = "Ok" THEN old ELSE r

\* let header: &'a H = <&'a H>::try_from(bytes)?;
ParseHeader ==
    /\ pc = "try_from"
    /\ LET r == header_try_from(bytes, fields, word, build)
       IN  /\ header' = IF r.kind = "Ok" THEN r ELSE header
           /\ image' = Returned(r, image)
           /\ pc' = Try(r, "sections")
    /\ log' = Append(log, "header")
    /\ UNCHANGED <<build, call, ret, word, bytes, fields, shdrs, names,
                   sections, program_headers, strtab, resolved>>

\* the table reinterpreted without the primitive's bounds check
extract_table_unchecked(b, rng, count, T, bld) ==
    LET sub == index_range(b, rng)
    IN  IF sub.kind # "Ok" THEN sub
        ELSE extract_no_bounds(sub, 0, count, T, bld)

\* extract_from_slice::<T>(&bytes[range], 0, count)
extract_table(b, rng, count, T, bld) ==
    LET sub == index_range(b, rng)
    IN  IF sub.kind # "Ok" THEN sub
        ELSE extract_from_slice(sub, 0, count, T, bld)

Extracting(b, rng) == index_range(b, rng).kind = "Ok"

\* let sections = unsafe { extract_from_slice(&bytes[header.sh_range()], 0,
\*                                            header.sh_count())? };
ExtractSections ==
    /\ pc = "sections"
    /\ LET rng == sh_range(header, build)
           r == extract_table(bytes, rng, sh_count(header), SectionT(word),
                              build)
       IN  /\ sections' = IF r.kind = "Ok" THEN r ELSE sections
           /\ image' = Returned(r, image)
           /\ pc' = Try(r, "prog_headers")
           /\ log' = log \o <<"sh_range">> \o
                     (IF Extracting(bytes, rng) THEN <<"extract_sections">>
                                                ELSE <<>>)
    /\ UNCHANGED <<build, call, ret, word, bytes, fields, shdrs, names,
                   header, program_headers, strtab, resolved>>

\* let prog_headers = unsafe { extract_from_slice(&bytes[header.ph_range()],
\*                                                0, header.ph_count())? };
ExtractProgHeaders ==
    /\ pc = "prog_headers"
    /\ LET rng == ph_range(header, build)
           r == extract_table(bytes, rng, ph_count(header),
                              ProgHeaderT(word), build)
       IN  /\ program_headers' = IF r.kind = "Ok" THEN r ELSE program_headers
           /\ image' = Returned(r, image)
           /\ pc' = Try(r, "assemble")
           /\ log' = log \o <<"ph_range">> \o
                     (IF Extracting(bytes, rng) THEN <<"extract_prog_headers">>
                                                ELSE <<>>)
    /\ UNCHANGED <<build, call, ret, word, bytes, fields, shdrs, names,
                   header, sections, strtab, resolved>>

\* Ok(Image { header, sections, program_headers: prog_headers, binary: bytes })
Assemble ==
    /\ pc = "assemble"
    /\ image' = [kind |-> "Ok", header |-> header, sections |-> sections,
                 program_headers |-> program_headers, binary |-> bytes]
    /\ pc' = "returned"
    /\ log' = Append(log, "image")
    /\ UNCHANGED <<build, call, ret, word, bytes, fields, shdrs, names,
                   header, sections, program_headers, strtab, resolved>>

----------------------------------------------------------------------------
(* Image::try_from over buffers of every length whose header declares any  *)
(* table geometry, fitting the buffer or not.                              *)

Zeros(n) == [i \in 1 .. n |-> 0]

Classes == {1, 2}
Idents == { Ident(c) : c \in Classes } \cup { <<0>> \o Tail(Ident(2)) }

TabOffsets == (0 .. MaxTabOff) \cup {UsizeMod - 1}
EntSizes(T) == {T.size - 1, T.size, T.size + 1}

(* the buffers of length n that start with (a prefix of) ident i *)
Buffer(i, n) == SubSeq(i \o Zeros(n), 1, n)

Geometry(w) ==
    [ sh_offset : TabOffsets, sh_entsize : EntSizes(SectionT(w)),
      sh_count : 0 .. MaxCount,
      ph_offset : TabOffsets, ph_entsize : EntSizes(ProgHeaderT(w)),
      ph_count : 0 .. MaxCount,
      sh_str_idx : {0} ]

Init ==
    /\ build \in Builds
    /\ pc = "try_from"
    /\ call = None
    /\ ret = None
    /\ word \in Words
    /\ \E i \in Idents, n \in 0 .. MaxBufLen : bytes = Buffer(i, n)
    /\ IF Len(bytes) < HeaderT(word).size
       THEN fields = None
       ELSE fields \in Geometry(word)
    /\ shdrs = <<>>
    /\ names = <<>>
    /\ header = None
    /\ sections = None
    /\ program_headers = None
    /\ image = None
    /\ log = <<>>
    /\ strtab = None
    /\ resolved = <<>>

Next ==
    \/ ParseHeader
    \/ ExtractSections
    \/ ExtractProgHeaders
    \/ Assemble

Spec == Init /\ [][Next]_vars

----------------------------------------------------------------------------
(* Image::sh_str_table and the lookup of a section's name *)

\* section::StrTable::from(&self.binary[self.header.sh_str_idx()..])
sh_str_table(img) == index_from(img.binary, sh_str_idx(img.header))

ShStrTable ==
    /\ pc = "returned"
    /\ image.kind = "Ok"
    /\ strtab = None
    /\ strtab' = sh_str_table(image)
    /\ pc' = IF strtab'.kind = "Panic" THEN "panicked" ELSE pc
    /\ UNCHANGED <<build, call, ret, word, bytes, fields, shdrs, names,
                   header, sections, program_headers, image, log, resolved>>

(* the bytes of b from position i (counted from 0) up to the next NUL *)
RECURSIVE UpToNul(_, _)
UpToNul(b, i) ==
    IF i >= Len(b) \/ b[i + 1] = 0 THEN <<>>
    ELSE <<b[i + 1]>> \o UpToNul(b, i + 1)

(* StrTable::name_at(index): the bytes of the table from index up to the   *)
(* next NUL; slicing the table past its end panics.                        *)
name_at(b, table, index) ==
    IF index > table.len
    THEN Panic("slice index out of range")
    ELSE LET name == UpToNul(b, table.base + index)
         IN  IF table.base + index + Len(name) >= Len(b)
             THEN Err("unterminated name")
             ELSE [kind |-> "Ok", name |-> name]

\* the name index section i declares, read through image.sections
name_offset(img, table, i) == table[i].name

NameAt(i) ==
    /\ strtab.kind = "Ok"
    /\ i \in 1 .. image.sections.count
    /\ resolved[i] = None
    /\ resolved' = [resolved EXCEPT
                      ![i] = name_at(image.binary, strtab,
                                     name_offset(image, shdrs, i))]
    /\ UNCHANGED <<build, pc, call, ret, word, bytes, fields, shdrs, names,
                   header, sections, program_headers, image, log, strtab>>

----------------------------------------------------------------------------
(* Well-formed binaries: the file header, then the section header string   *)
(* table, then the section header table, then the program header table.    *)
(* e_shstrndx is the index, in the section header table, of the section    *)
(* that holds the string table.                                            *)

NameChars == {97, 98}
NameSet == UNION { [1 .. k -> NameChars] : k \in 0 .. MaxNameLen }

RECURSIVE StrTabBytes(_)
StrTabBytes(ns) ==
    IF ns = <<>> THEN <<0>>
    ELSE StrTabBytes(SubSeq(ns, 1, Len(ns) - 1)) \o ns[Len(ns)] \o <<0>>

\* where name i starts in the string table
NameIndex(ns, i) == Len(StrTabBytes(SubSeq(ns, 1, i - 1)))

AlignUp(x, a) == ((x + a - 1) \div a) * a

StrTabOffset(w) == HeaderT(w).size
ShOffset(w, ns) ==
    AlignUp(StrTabOffset(w) + Len(StrTabBytes(ns)), SectionT(w).align)
PhOffset(w, ns) == ShOffset(w, ns) + Len(ns) * SectionT(w).size
FileLen(w, ns, phc) == PhOffset(w, ns) + phc * ProgHeaderT(w).size

FileBytes(w, ns, phc) ==
    LET head == Buffer(Ident(ClassOf(w)), HeaderT(w).size) \o StrTabBytes(ns)
    IN  head \o Zeros(FileLen(w, ns, phc) - Len(head))

InitStr ==
    /\ build \in Builds
    /\ pc = "try_from"
    /\ call = None
    /\ ret = None
    /\ word \in Words
    /\ \E n \in 2 .. MaxSections : names \in [1 .. n -> NameSet]
    /\ \E phc \in 0 .. 1, strndx \in 1 .. (Len(names) - 1) :
          /\ bytes = FileBytes(word, names, phc)
          /\ fields = [ sh_offset |-> ShOffset(word, names),
                        sh_entsize |-> SectionT(word).size,
                        sh_count |-> Len(names),
                        ph_offset |-> PhOffset(word, names),
                        ph_entsize |-> ProgHeaderT(word).size,
                        ph_count |-> phc,
                        sh_str_idx |-> strndx ]
          /\ shdrs = [ i \in 1 .. Len(names) |->
                         [ name |-> NameIndex(names, i),
                           offset |-> IF i = strndx + 1
                                      THEN StrTabOffset(word) ELSE 0 ] ]
    /\ header = None
    /\ sections = None
    /\ program_headers = None
    /\ image = None
    /\ log = <<>>
    /\ strtab = None
    /\ resolved = [i \in 1 .. Len(names) |-> None]

NextStr ==
    \/ ParseHeader
    \/ ExtractSections
    \/ ExtractProgHeaders
    \/ Assemble
    \/ ShStrTable
    \/ \E i \in 1 .. Len(names) : NameAt(i)

SpecStr == InitStr /\ [][NextStr]_vars

(* C9: in a well-formed binary, the name index a section header declares,  *)
(* resolved through the table sh_str_table returns, yields the section's   *)
(* original name bytes, without the terminating NUL.                       *)
C9_NamesRoundTrip ==
    \A i \in DOMAIN resolved :
        resolved[i] # None => resolved[i] = [kind |-> "Ok", name |-> names[i]]

(* The binaries of InitStr are well-formed: every one builds an Image, and *)
(* the table that starts at the file offset of section e_shstrndx holds    *)
(* every section's name at its declared index.                             *)
WellFormedBinary ==
    /\ image.kind \in {"None", "Ok"}
    /\ \A i \in DOMAIN shdrs :
          LET off == shdrs[fields.sh_str_idx + 1].offset
              table == [base |-> off, len |-> Len(bytes) - off]
          IN  name_at(bytes, table, shdrs[i].name)
                 = [kind |-> "Ok", name |-> names[i]]

----------------------------------------------------------------------------
(* Properties of Image::try_from, checked under Spec *)

Final == pc \in {"returned", "panicked"}

(* C2: building an Image from any buffer returns an Image or an error      *)
(* value; it never panics.                                                 *)
C2_NeverPanics == pc # "panicked"

ShMisaligned == ~Aligned(fields.sh_offset, SectionT(word))
PhMisaligned == ~Aligned(fields.ph_offset, ProgHeaderT(word))

(* C3: when the section header table start or the program header table     *)
(* start is not a multiple of the alignment of the record type extracted,  *)
(* construction fails with the misalignment error.                         *)
C3_MisalignedTableIsRejected ==
    (Final /\ header # None /\ (ShMisaligned \/ PhMisaligned))
        => image = Err(MisalignedOffset)

ShPastEnd ==
    fields.sh_offset + fields.sh_entsize * fields.sh_count > Len(bytes)
PhPastEnd ==
    fields.ph_offset + fields.ph_entsize * fields.ph_count > Len(bytes)

(* C4: when the declared section header range extends past the end of the  *)
(* buffer, construction fails with the truncation error; likewise for the  *)
(* program header range once the sections were extracted.                  *)
C4_TruncatedTableIsReported ==
    /\ (Final /\ header # None /\ ~ShMisaligned /\ ShPastEnd)
          => image = Err(BufferTooShort)
    /\ (Final /\ sections # None /\ ~PhMisaligned /\ PhPastEnd)
          => image = Err(BufferTooShort)

Steps == <<"header", "sh_range", "extract_sections",
           "ph_range", "extract_prog_headers", "image">>

IsPrefix(s, t) == Len(s) <= Len(t) /\ s = SubSeq(t, 1, Len(s))

Logged(step) == \E i \in DOMAIN log : log[i] = step

(* C8: the steps run in the order header parse, section extraction,        *)
(* program header extraction; a failing header parse returns its error     *)
(* with no geometry read and no extraction attempted; after a failing      *)
(* section extraction no program header extraction is attempted; an Image  *)
(* exists only when all three steps succeeded.                             *)
C8_StopsAtFirstFailure ==
    /\ IsPrefix(log, Steps)
    /\ (image # None) => Final
    /\ (Logged("header") /\ header = None) =>
          /\ log = <<"header">>
          /\ Final
          /\ image = header_try_from(bytes, fields, word, build)
          /\ sections = None /\ program_headers = None
    /\ (Logged("sh_range") /\ sections = None) =>
          /\ Final
          /\ image.kind # "Ok"
          /\ ~Logged("ph_range")
          /\ program_headers = None
    /\ (Logged("ph_range") /\ program_headers = None) =>
          /\ Final
          /\ image.kind # "Ok"
    /\ (image.kind = "Ok") =>
          /\ log = Steps
          /\ header # None /\ sections # None /\ program_headers # None
          /\ image.header = header
          /\ image.sections = sections
          /\ image.program_headers = program_headers

C8_Witness ==
    /\ pc = "returned"
    /\ Len(bytes) >= HeaderT(word).size
    /\ SubSeq(bytes, 1, Len(ElfMagic)) = ElfMagic
    /\ image = Err(BadClass)
    /\ log = <<"header">>
    /\ fields.sh_count > 0

Covers(slice, rng) ==
    /\ rng.kind = "Ok"
    /\ slice.base = rng.start
    /\ slice.base + slice.count * slice.elem.size <= rng.end

(* C10: when construction succeeds, sections has sh_count entries and      *)
(* program_headers has ph_count entries, both inside the buffer at the     *)
(* ranges sh_range and ph_range derived again from the Image's header, and *)
(* the Image's binary is the whole input buffer.                           *)
C10_TablesMatchHeader ==
    (image.kind = "Ok") =>
        /\ image.sections.count = sh_count(image.header)
        /\ image.sections.elem = SectionT(word)
        /\ image.program_headers.count = ph_count(image.header)
        /\ image.program_headers.elem = ProgHeaderT(word)
        /\ Covers(image.sections, sh_range(image.header, build))
        /\ Covers(image.program_headers, ph_range(image.header, build))
        /\ sh_range(image.header, build).end <= Len(bytes)
        /\ ph_range(image.header, build).end <= Len(bytes)
        /\ image.binary = bytes

C10_Witness ==
    /\ image.kind = "Ok"
    /\ image.sections.count = 2
    /\ image.program_headers.count = 1
    /\ image.sections.base # image.program_headers.base

====
